---- MODULE Spec2Model ----
\* Divisibility traits of rayon-adaptive (src/src/traits.rs): Divisible and
\* DivisibleIntoBlocks with their implementations for &[T], &mut [T] and
\* Range<usize>, the in-place cut_left_at primitive and the Chunks iterator.
EXTENDS Integers, Sequences, FiniteSets

\* ---------------------------------------------------------------- bounds
\* Largest value of the machine word (usize) in the model.
UsizeMax == 11
\* Number of cells of the storage the slices are views of.
MaxLen == 10
\* Largest requested chunk size and longest sequence of requested sizes.
MaxChunkSize == 3
MaxSizes == 3
\* Number of elements of the storage split by the tree of mutable views, and
\* the largest number of views kept alive at once.
MaxStorage == 4
MaxPieces == 4

Modulus == UsizeMax + 1
Usize == 0..UsizeMax

VARIABLES
    overflow_checks,  \* build profile: TRUE panics on overflow, FALSE wraps
    v,                \* the value the operation is applied to
    index,            \* the usize argument of divide_at / cut_left_at
    op,               \* the operation applied so far ("init" before any)
    panicked,         \* the operation panicked
    left, right,      \* the pair returned by divide / divide_at (locals of cut_left_at)
    slot,             \* the variable cut_left_at is called on (*self)
    ret,              \* the value returned by cut_left_at / base_length
    my_copy,          \* cut_left_at's local my_copy
    pc,               \* position inside cut_left_at
    remaining,        \* Chunks.remaining
    remaining_sizes,  \* Chunks.remaining_sizes
    sizes,            \* the sizes the iterator was built with
    produced,         \* the items the iterator has returned, in order
    pieces            \* the live mutable views, in address order

vars == <<overflow_checks, v, index, op, panicked, left, right, slot, ret,
          my_copy, pc, remaining, remaining_sizes, sizes, produced, pieces>>

\* ---------------------------------------------------------------- values
\* No value: an unset result, a moved-out local.
None == [kind |-> "none"]

\* &[T] and &mut [T]: a view (pointer, length) of cells of the storage.
Slice(k, p, n) == [kind |-> k, ptr |-> p, len |-> n]
\* Range<usize>: start..end.
Range(s, e) == [kind |-> "range", start |-> s, end |-> e]

Slices(k) ==
    {Slice(k, pn[1], pn[2]) :
        pn \in {x \in (0..MaxLen) \X (0..MaxLen) : x[1] + x[2] <= MaxLen}}
Ranges == {Range(s, e) : s \in Usize, e \in Usize}
Values == Slices("slice") \cup Slices("mut_slice") \cup Ranges

\* The outcome of an operation returning (Self, Self): a panic or a pair.
Panic == [panic |-> TRUE, left |-> None, right |-> None]
Pair(l, r) == [panic |-> FALSE, left |-> l, right |-> r]

\* usize addition a + b: panics in a build with overflow checks, wraps otherwise.
Add(a, b) == [overflow |-> a + b > UsizeMax, val |-> (a + b) % Modulus]

\* ------------------------------------------------- the standard library
\* <[T]>::len
slice_len(self) == self.len

\* <[T]>::split_at: panics when mid > len.
split_at(self, mid) ==
    IF mid > self.len THEN Panic
    ELSE Pair(Slice(self.kind, self.ptr, mid),
              Slice(self.kind, self.ptr + mid, self.len - mid))

\* split_at_mut with the right half taken from the start of the view.
split_at_mut_overlapping(self, mid) ==
    IF mid > self.len THEN Panic
    ELSE Pair(Slice(self.kind, self.ptr, mid),
              Slice(self.kind, self.ptr, self.len - mid))

\* <[T]>::split_at_mut: panics when mid > len.
split_at_mut(self, mid) ==
    IF mid > self.len THEN Panic
    ELSE Pair(Slice(self.kind, self.ptr, mid),
              Slice(self.kind, self.ptr + mid, self.len - mid))

\* ExactSizeIterator::len of Range<usize>: 0 unless start < end.
range_len(self) == IF self.start < self.end THEN self.end - self.start ELSE 0

\* ------------------------------------------------------------ Divisible
slice_base_length(self) == slice_len(self)
mut_slice_base_length(self) == slice_len(self)
range_base_length(self) == range_len(self)

base_length(self) ==
    CASE self.kind = "slice" -> slice_base_length(self)
      [] self.kind = "mut_slice" -> mut_slice_base_length(self)
      [] self.kind = "range" -> range_base_length(self)

is_empty(self) == base_length(self) = 0

\* divide of &[T] with the midpoint rounded up.
slice_divide_ceil(self) ==
    LET mid == (slice_len(self) + 1) \div 2 IN split_at(self, mid)

slice_divide(self) ==
    LET mid == slice_len(self) \div 2 IN split_at(self, mid)

mut_slice_divide(self) ==
    LET mid == mut_slice_base_length(self) \div 2 IN split_at_mut(self, mid)

\* divide of Range<usize> with the midpoint counted back from the end.
range_divide_from_end(self) ==
    LET mid == self.end - (range_len(self) \div 2) IN
    Pair(Range(self.start, mid), Range(mid, self.end))

\* divide of Range<usize> with the midpoint not offset by start.
range_divide_mid_len(self) ==
    LET mid == range_len(self) \div 2 IN
    Pair(Range(self.start, mid), Range(mid, self.end))

range_divide(self) ==
    LET mid == Add(self.start, range_len(self) \div 2) IN
    IF mid.overflow /\ overflow_checks THEN Panic
    ELSE Pair(Range(self.start, mid.val), Range(mid.val, self.end))

divide(self) ==
    CASE self.kind = "slice" -> slice_divide(self)
      [] self.kind = "mut_slice" -> mut_slice_divide(self)
      [] self.kind = "range" -> range_divide(self)

\* -------------------------------------------------- DivisibleIntoBlocks
slice_divide_at(self, i) == split_at(self, i)

mut_slice_divide_at(self, i) == split_at_mut(self, i)

\* divide_at of Range<usize> with the index not offset by start.
range_divide_at_no_start(self, i) ==
    Pair(Range(self.start, i), Range(i, self.end))

range_divide_at(self, i) ==
    LET e == Add(self.start, i) IN
    IF e.overflow /\ overflow_checks THEN Panic
    ELSE Pair(Range(self.start, e.val), Range(e.val, self.end))

divide_at(self, i) ==
    CASE self.kind = "slice" -> slice_divide_at(self, i)
      [] self.kind = "mut_slice" -> mut_slice_divide_at(self, i)
      [] self.kind = "range" -> range_divide_at(self, i)

\* cut_left_at without the write of the right half back to *self.
cut_left_at_no_write(self, i) ==
    LET d == divide_at(self, i)
    IN IF d.panic THEN [panic |-> TRUE, ret |-> None, self |-> self]
       ELSE [panic |-> FALSE, ret |-> d.left, self |-> self]

\* cut_left_at keeping the left half in *self and returning the right one.
cut_left_at_keeps_left(self, i) ==
    LET d == divide_at(self, i)
    IN IF d.panic THEN [panic |-> TRUE, ret |-> None, self |-> self]
       ELSE [panic |-> FALSE, ret |-> d.right, self |-> d.left]

\* cut_left_at as one call: the outcome, the value returned and the new *self.
cut_left_at(self, i) ==
    LET copy == self
        d == divide_at(copy, i)
    IN IF d.panic THEN [panic |-> TRUE, ret |-> None, self |-> self]
       ELSE [panic |-> FALSE, ret |-> d.left, self |-> d.right]

\* ------------------------------------------ the operations, one call each
Idle == /\ my_copy = None /\ pc = "idle"
        /\ remaining = None /\ remaining_sizes = <<>> /\ sizes = <<>>
        /\ produced = <<>> /\ pieces = <<>>

Init ==
    /\ overflow_checks \in BOOLEAN
    /\ v \in Values
    /\ index \in Usize
    /\ op = "init"
    /\ panicked = FALSE
    /\ left = None /\ right = None /\ ret = None
    /\ slot = v
    /\ Idle

Rest == <<overflow_checks, v, index, my_copy, pc, remaining, remaining_sizes,
          sizes, produced, pieces>>

BaseLength ==
    /\ op = "init"
    /\ op' = "base_length"
    /\ ret' = base_length(v)
    /\ UNCHANGED <<panicked, left, right, slot, Rest>>

Divide ==
    /\ op = "init"
    /\ op' = "divide"
    /\ LET d == divide(v) IN
       /\ panicked' = d.panic
       /\ left' = d.left
       /\ right' = d.right
    /\ slot' = None
    /\ UNCHANGED <<ret, Rest>>

DivideAt ==
    /\ op = "init"
    /\ op' = "divide_at"
    /\ LET d == divide_at(v, index) IN
       /\ panicked' = d.panic
       /\ left' = d.left
       /\ right' = d.right
    /\ slot' = None
    /\ UNCHANGED <<ret, Rest>>

CutLeftAt ==
    /\ op = "init"
    /\ op' = "cut_left_at"
    /\ LET c == cut_left_at(slot, index) IN
       /\ panicked' = c.panic
       /\ ret' = c.ret
       /\ slot' = c.self
    /\ UNCHANGED <<left, right, Rest>>

Next == BaseLength \/ Divide \/ DivideAt \/ CutLeftAt

Spec == Init /\ [][Next]_vars

\* ------------------------------------------------ cut_left_at, step by step
\* The statements of cut_left_at, one action each, on the variable `slot`.
InitCut ==
    /\ overflow_checks \in BOOLEAN
    /\ v \in Values
    /\ index \in Usize
    /\ op = "cut_left_at"
    /\ panicked = FALSE
    /\ left = None /\ right = None /\ ret = None
    /\ slot = v
    /\ my_copy = None /\ pc = "call"
    /\ remaining = None /\ remaining_sizes = <<>> /\ sizes = <<>>
    /\ produced = <<>> /\ pieces = <<>>

CutRest == <<overflow_checks, v, index, op, remaining, remaining_sizes, sizes,
             produced, pieces>>

\* let my_copy = ptr::read(self): a bitwise copy, *self keeps its value.
CutRead ==
    /\ pc = "call"
    /\ my_copy' = slot
    /\ pc' = "read"
    /\ UNCHANGED <<panicked, left, right, slot, ret, CutRest>>

\* let (left, right) = my_copy.divide_at(index): my_copy is moved into the
\* call; a panic unwinds out of cut_left_at, and no value here has a destructor.
CutDivide ==
    /\ pc = "read"
    /\ LET d == divide_at(my_copy, index) IN
       /\ panicked' = d.panic
       /\ left' = d.left
       /\ right' = d.right
       /\ pc' = IF d.panic THEN "panicked" ELSE "divided"
    /\ my_copy' = None
    /\ UNCHANGED <<slot, ret, CutRest>>

\* The write step leaving *self as it was.
CutWriteSkipped ==
    /\ pc = "divided"
    /\ right' = None
    /\ pc' = "written"
    /\ UNCHANGED <<panicked, left, slot, ret, my_copy, CutRest>>

\* ptr::write(pointer_to_self, right): overwrites *self without dropping it.
CutWrite ==
    /\ pc = "divided"
    /\ slot' = right
    /\ right' = None
    /\ pc' = "written"
    /\ UNCHANGED <<panicked, left, ret, my_copy, CutRest>>

\* left: returned to the caller.
CutReturn ==
    /\ pc = "written"
    /\ ret' = left
    /\ left' = None
    /\ pc' = "returned"
    /\ UNCHANGED <<panicked, right, slot, my_copy, CutRest>>

NextCut == CutRead \/ CutDivide \/ CutWrite \/ CutReturn

SpecCut == InitCut /\ [][NextCut]_vars

\* ------------------------------------------------ a tree of mutable views
\* The views obtained so far from one mutable slice, each held by its own
\* variable; an operation on one of them replaces it by the two it yields.
Replace(seq, i, l, r) ==
    SubSeq(seq, 1, i - 1) \o <<l, r>> \o SubSeq(seq, i + 1, Len(seq))

InitPieces ==
    /\ overflow_checks \in BOOLEAN
    /\ v \in {s \in Slices("mut_slice") : s.ptr + s.len <= MaxStorage}
    /\ index = 0
    /\ op = "init"
    /\ panicked = FALSE
    /\ left = None /\ right = None /\ ret = None
    /\ slot = None
    /\ my_copy = None /\ pc = "idle"
    /\ remaining = None /\ remaining_sizes = <<>> /\ sizes = <<>>
    /\ produced = <<>>
    /\ pieces = <<v>>

PiecesRest == <<overflow_checks, v, panicked, left, right, ret, slot, my_copy,
                pc, remaining, remaining_sizes, sizes, produced>>

PiecesDivide ==
    /\ Len(pieces) < MaxPieces
    /\ \E i \in 1..Len(pieces) :
          LET d == divide(pieces[i]) IN
          /\ ~d.panic
          /\ pieces' = Replace(pieces, i, d.left, d.right)
          /\ index' = base_length(pieces[i]) \div 2
    /\ op' = "divide"
    /\ UNCHANGED PiecesRest

PiecesDivideAt ==
    /\ Len(pieces) < MaxPieces
    /\ \E i \in 1..Len(pieces) : \E n \in 0..base_length(pieces[i]) :
          LET d == divide_at(pieces[i], n) IN
          /\ ~d.panic
          /\ pieces' = Replace(pieces, i, d.left, d.right)
          /\ index' = n
    /\ op' = "divide_at"
    /\ UNCHANGED PiecesRest

PiecesCutLeftAt ==
    /\ Len(pieces) < MaxPieces
    /\ \E i \in 1..Len(pieces) : \E n \in 0..base_length(pieces[i]) :
          LET c == cut_left_at(pieces[i], n) IN
          /\ ~c.panic
          /\ pieces' = Replace(pieces, i, c.ret, c.self)
          /\ index' = n
    /\ op' = "cut_left_at"
    /\ UNCHANGED PiecesRest

NextPieces == PiecesDivide \/ PiecesDivideAt \/ PiecesCutLeftAt

SpecPieces == InitPieces /\ [][NextPieces]_vars

\* ------------------------------------------------------ the chunk iterator
\* DivisibleIntoBlocks::chunks: the iterator over self with the given sizes.
chunks(self, ss) == [remaining |-> self, remaining_sizes |-> ss]

SizeSeqs == UNION {[1..n -> 0..MaxChunkSize] : n \in 0..MaxSizes}

InitChunks ==
    /\ overflow_checks \in BOOLEAN
    /\ v \in Values
    /\ sizes \in SizeSeqs
    /\ remaining = chunks(v, sizes).remaining
    /\ remaining_sizes = chunks(v, sizes).remaining_sizes
    /\ produced = <<>>
    /\ index = 0
    /\ op = "init"
    /\ panicked = FALSE
    /\ left = None /\ right = None /\ ret = None
    /\ slot = None
    /\ my_copy = None /\ pc = "idle"
    /\ pieces = <<>>

ChunksRest == <<overflow_checks, v, sizes, left, right, slot, my_copy, pc, pieces>>

\* Chunks::next. The iterator is finished when the remaining value is empty or
\* the sizes are exhausted; otherwise it pulls the next size, rejects it (a
\* contract violation, fatal) when it exceeds the remaining length, and cuts
\* a chunk of that size off the left of the remaining value.
ChunksNext ==
    /\ ~panicked
    /\ IF is_empty(remaining) \/ remaining_sizes = <<>>
       THEN /\ op' = "none"
            /\ ret' = None
            /\ UNCHANGED <<remaining, remaining_sizes, produced, index, panicked>>
       ELSE LET s == Head(remaining_sizes) IN
            /\ index' = s
            /\ remaining_sizes' = Tail(remaining_sizes)
            /\ IF s > base_length(remaining)
               THEN /\ panicked' = TRUE
                    /\ op' = "panic"
                    /\ ret' = None
                    /\ UNCHANGED <<remaining, produced>>
               ELSE LET c == cut_left_at(remaining, s) IN
                    /\ panicked' = c.panic
                    /\ op' = IF c.panic THEN "panic" ELSE "some"
                    /\ ret' = c.ret
                    /\ remaining' = c.self
                    /\ produced' = IF c.panic THEN produced
                                   ELSE Append(produced, c.ret)
    /\ UNCHANGED ChunksRest

NextChunks == ChunksNext

SpecChunks == InitChunks /\ [][NextChunks]_vars

\* ------------------------------------------------------------ properties
\* The elements a value stands for, in order: the storage cells of a view,
\* the integers of a range.
Elems(x) ==
    IF x.kind = "range" THEN [i \in 1..range_len(x) |-> x.start + i - 1]
    ELSE [i \in 1..x.len |-> x.ptr + i - 1]

WellFormed(x) == x.kind = "range" => x.start <= x.end

\* C1: divide_at with a valid index returns (l, r) with base_length(l) = index
\* and base_length(r) = base_length(v) - index, the elements of l followed by
\* those of r being the elements of v in order; for a range l.start = v.start,
\* l.end = r.start = v.start + index and r.end = v.end.
C1_DivideAtPartitions ==
    (op = "divide_at" /\ WellFormed(v) /\ index <= base_length(v)) =>
        /\ ~panicked
        /\ left.kind = v.kind /\ right.kind = v.kind
        /\ base_length(left) = index
        /\ base_length(right) = base_length(v) - index
        /\ Elems(left) \o Elems(right) = Elems(v)
        /\ v.kind = "range" =>
              /\ left.start = v.start
              /\ left.end = v.start + index
              /\ right.start = v.start + index
              /\ right.end = v.end

C1_Witness_SliceSplit ==
    /\ op = "divide_at" /\ v.kind = "mut_slice" /\ v.ptr > 0
    /\ index > 0 /\ index < base_length(v)
    /\ left = Slice("mut_slice", v.ptr, index)

\* C2: cut_left_at with a valid index returns a value of length index and
\* leaves the variable with length base_length(v) - index; the returned value
\* followed by the variable's new value is v, and the two are the pair
\* divide_at(v, index) returns.
C2_CutLeftAtKeepsRight ==
    (op = "cut_left_at" /\ index <= base_length(v)) =>
        /\ ~panicked
        /\ base_length(ret) = index
        /\ base_length(slot) = base_length(v) - index
        /\ Elems(ret) \o Elems(slot) = Elems(v)
        /\ Pair(ret, slot) = divide_at(v, index)

C2_Witness_RangeCut ==
    /\ op = "cut_left_at" /\ v = Range(2, 9) /\ index = 3
    /\ ret = Range(2, 5) /\ slot = Range(5, 9)

\* C3: divide_at and cut_left_at with index > base_length panic, for every
\* adapter.
C3_OutOfRangePanics ==
    (op \in {"divide_at", "cut_left_at"} /\ index > base_length(v)) => panicked

\* C4: divide splits at the midpoint: the left half has floor(n/2) elements,
\* the right half the other n - floor(n/2), the left never the larger.
C4_DivideAtMidpoint ==
    op = "divide" =>
        LET n == base_length(v) IN
        /\ ~panicked
        /\ base_length(left) = n \div 2
        /\ base_length(right) = n - (n \div 2)
        /\ base_length(left) <= base_length(right)
        /\ base_length(left) + base_length(right) = n

C4_Witness_TenElements ==
    /\ op = "divide" /\ v = Slice("slice", 0, 10)
    /\ base_length(left) = 5 /\ base_length(right) = 5

\* C5: divide returns the pair divide_at returns at base_length / 2.
C5_DivideIsDivideAtHalf ==
    op = "divide" =>
        LET d == divide_at(v, base_length(v) \div 2) IN
        /\ panicked = d.panic
        /\ left = d.left
        /\ right = d.right
        /\ base_length(left) = base_length(d.left)
        /\ base_length(right) = base_length(d.right)
        /\ Elems(left) = Elems(d.left)
        /\ Elems(right) = Elems(d.right)

C5_Witness_OddRange ==
    /\ op = "divide" /\ v = Range(3, 10)
    /\ left = Range(3, 6) /\ right = Range(6, 10)

\* C10: for a range with start <= end, base_length is end - start, and the
\* bound divide and divide_at (valid index) compute lies in [start, end]: the
\* addition does not overflow and no returned range has start > end.
C10_RangeBoundsInRange ==
    (v.kind = "range" /\ v.start <= v.end) =>
        /\ op = "base_length" => ret = v.end - v.start
        /\ op = "divide" =>
              /\ ~panicked
              /\ left.end = v.start + ((v.end - v.start) \div 2)
              /\ right.start = left.end
              /\ v.start <= left.end /\ left.end <= v.end
              /\ left.start <= left.end /\ right.start <= right.end
        /\ (op = "divide_at" /\ index <= v.end - v.start) =>
              /\ ~panicked
              /\ left.end = v.start + index
              /\ right.start = left.end
              /\ v.start <= left.end /\ left.end <= v.end
              /\ left.start <= left.end /\ right.start <= right.end

C10_Witness_TopOfWord ==
    /\ op = "divide_at" /\ overflow_checks
    /\ v = Range(UsizeMax - 2, UsizeMax) /\ index = 2
    /\ left = Range(UsizeMax - 2, UsizeMax)

\* ------------------------------------------------ properties of the iterator
RECURSIVE Sum(_)
Sum(seq) == IF seq = <<>> THEN 0 ELSE Head(seq) + Sum(Tail(seq))

RECURSIVE Concat(_)
Concat(seq) == IF seq = <<>> THEN <<>> ELSE Elems(Head(seq)) \o Concat(Tail(seq))

\* The length of the shortest prefix of the sizes that sums to n.
ShortestPrefix(seq, n) ==
    CHOOSE k \in 0..Len(seq) :
        /\ Sum(SubSeq(seq, 1, k)) = n
        /\ \A j \in 0..(k - 1) : Sum(SubSeq(seq, 1, j)) # n

Exact == Sum(sizes) = base_length(v)

\* C6 as stated: with sizes summing to the length of the value, the finished
\* iterator has produced exactly one chunk per requested size, the k-th of the
\* k-th size, and the chunks in order make up the value.
C6_OneChunkPerSize ==
    (Exact /\ op = "none") =>
        /\ Len(produced) = Len(sizes)
        /\ \A k \in 1..Len(produced) : base_length(produced[k]) = sizes[k]
        /\ Concat(produced) = Elems(v)

\* C6 amended: with sizes summing to the length of the value, the k-th chunk
\* produced has the k-th requested size, the chunks produced followed by the
\* remaining value make up the value, and the finished iterator has produced
\* one chunk for each size of the shortest prefix of the sizes that sums to
\* the length (sizes of 0 after that prefix produce nothing), the chunks
\* making up the value.
C6_OneChunkPerSizeOfPrefix ==
    Exact =>
        /\ ~panicked
        /\ Len(produced) <= Len(sizes)
        /\ \A k \in 1..Len(produced) : base_length(produced[k]) = sizes[k]
        /\ Concat(produced) \o Elems(remaining) = Elems(v)
        /\ op = "none" =>
              /\ Len(produced) = ShortestPrefix(sizes, base_length(v))
              /\ Concat(produced) = Elems(v)

C6_Witness_SevenInThree ==
    /\ v = Range(0, 7) /\ sizes = <<2, 2, 3>> /\ op = "none"
    /\ produced = <<Range(0, 2), Range(2, 4), Range(4, 7)>>

Finished == is_empty(remaining) \/ remaining_sizes = <<>>

StepWhenFinished ==
    /\ produced' = produced
    /\ remaining' = remaining
    /\ ret' = None
    /\ Finished'

StepCuts ==
    LET s == Head(remaining_sizes) IN
    /\ remaining_sizes' = Tail(remaining_sizes)
    /\ Len(produced') = Len(produced) + 1
    /\ SubSeq(produced', 1, Len(produced)) = produced
    /\ produced'[Len(produced')] = ret'
    /\ base_length(ret') = s
    /\ base_length(remaining') = base_length(remaining) - s
    /\ Elems(ret') \o Elems(remaining') = Elems(remaining)

\* C7 as stated: a step of the finished iterator produces nothing, leaves the
\* remaining value alone and leaves the iterator finished; any other step
\* consumes one size s and shortens the remaining value by s.
C7_StepConsumesOneSize ==
    [][IF Finished THEN StepWhenFinished ELSE StepCuts]_vars

\* C7 amended: a step of the finished iterator produces nothing, leaves the
\* remaining value alone and leaves the iterator finished; any other step
\* whose size s is at most the remaining length consumes that one size and
\* shortens the remaining value by s, the chunk being the s leftmost elements.
C7_StepConsumesOneValidSize ==
    [][IF Finished THEN StepWhenFinished
       ELSE Head(remaining_sizes) <= base_length(remaining) => StepCuts]_vars

C7_Witness_FinishedAfterCut ==
    /\ op = "none" /\ Len(produced) = 2 /\ remaining_sizes # <<>>
    /\ is_empty(remaining) /\ base_length(v) = 4

\* ------------------------------------------- properties of the mutable views
Cells(x) == {x.ptr + i : i \in 0..(x.len - 1)}

RECURSIVE SumLengths(_)
SumLengths(seq) ==
    IF seq = <<>> THEN 0 ELSE base_length(Head(seq)) + SumLengths(Tail(seq))

\* C8: the live views cover pairwise disjoint cells, together exactly the
\* cells of the original view, and their lengths sum to its length.
C8_PiecesPartition ==
    /\ \A i, j \in 1..Len(pieces) :
          i # j => Cells(pieces[i]) \cap Cells(pieces[j]) = {}
    /\ UNION {Cells(pieces[i]) : i \in 1..Len(pieces)} = Cells(v)
    /\ SumLengths(pieces) = base_length(v)

C8_Witness_FourViews ==
    /\ Len(pieces) = 4 /\ v = Slice("mut_slice", 0, 4)
    /\ \A i \in 1..4 : pieces[i].len = 1
    /\ op = "cut_left_at"

\* ----------------------------------------- properties of cut_left_at's steps
\* The caller's code runs before the call, after the return and after a panic.
Observable == pc \in {"call", "returned", "panicked"}

Holders == {slot, my_copy, left, right, ret} \ {None}

\* C9: where other code can observe it, *self is never aliased: after a panic
\* of divide_at *self holds its value from before the call and nothing else
\* holds a value; after the return *self holds the right half, the caller the
\* left half, no local holds a value, and two mutable views share no cell.
C9_NoObservableAlias ==
    Observable =>
        /\ my_copy = None /\ left = None /\ right = None
        /\ pc = "call" => (slot = v /\ ret = None)
        /\ pc = "panicked" => (slot = v /\ ret = None /\ panicked)
        /\ pc = "returned" =>
              /\ ~panicked
              /\ Pair(ret, slot) = divide_at(v, index)
              /\ v.kind = "mut_slice" => Cells(ret) \cap Cells(slot) = {}

C9_Witness_PanicKeepsSelf ==
    /\ pc = "panicked" /\ v.kind = "mut_slice" /\ v.len > 0
    /\ slot = v /\ Holders = {v}

====
